---- MODULE Spec2Model ----
(***************************************************************************)
(* A model of pyreact: the data-flow graph of src/pyreact/core.py, the     *)
(* signals and observers of src/pyreact/signal.py and the propagation     *)
(* loop of Propagator.propagate, the event sources and stream observers   *)
(* of src/pyreact/eventstream.py, the frames of src/pyreact/tracking.py   *)
(* and the generator-built event streams of src/pyreact/flow.py.          *)
(*                                                                         *)
(* Every node the client creates is held by the client for the whole run, *)
(* so no weak reference dies and __compact_weak_refs removes nothing.     *)
(* The client programs are the small graphs of Table below.               *)
(***************************************************************************)
EXTENDS Integers, Sequences, FiniteSets, TLC

(* ---------------------------------------------------------------------- *)
(* Bounds                                                                  *)
(* ---------------------------------------------------------------------- *)
MaxVal == 2
MaxWaves == 2
MaxDepth == 3

Values == 0..MaxVal

(* ---------------------------------------------------------------------- *)
(* Program constants                                                       *)
(* ---------------------------------------------------------------------- *)
\* float('inf'), the level of an Observer
Inf == 1000
\* number of parameters Propagator.propagate accepts after self
PropagateParams == 1
\* number of arguments Var.update passes to propagator.propagate
UpdateCallArgs == 2
\* number of arguments EventSource.emit passes to propagator.propagate
EmitCallArgs == 2
\* None, what Node.level returns for a class that does not override it
NoLevel == -1

(* ---------------------------------------------------------------------- *)
(* Results (pyutil.result): Success(value) or Failure(error)               *)
(* ---------------------------------------------------------------------- *)
Success(v) == [tag |-> "Success", val |-> v]
Failure(e) == [tag |-> "Failure", val |-> e]
NoResult == [tag |-> "None", val |-> 0]
IsSuccess(r) == r.tag = "Success"

(* ---------------------------------------------------------------------- *)
(* Client programs: the nodes each scenario constructs                     *)
(* ---------------------------------------------------------------------- *)
Nodes == {"a", "b", "c", "d", "x", "o"}

Scenarios == {"diamond", "chain", "switch", "stale", "cutoff", "error",
              "obs_error", "stream", "flow"}

NoNode == [kind |-> "None", op |-> "none", args |-> <<>>]
VarNode == [kind |-> "Var", op |-> "none", args |-> <<>>]
Comp(op, args) == [kind |-> "Computed", op |-> op, args |-> args]
Obs(target) == [kind |-> "Observer", op |-> "observe", args |-> <<target>>]
ObsAction(op, args) == [kind |-> "Observer", op |-> op, args |-> args]
SourceNode == [kind |-> "Source", op |-> "none", args |-> <<>>]
StreamObs(src) == [kind |-> "StreamObserver", op |-> "stream", args |-> <<src>>]
\* flow.EventStream(body): body yields the emitters of yields in turn and
\* then returns (last = "stop") or raises (last = "raise")
FlowNode(yields, last) == [kind |-> "Flow", op |-> last, args |-> yields]

\* the table of a scenario: what each name is bound to by the client program
Table(s) ==
  CASE s = "diamond" ->
         [a |-> VarNode, b |-> Comp("plus1", <<"a">>), c |-> Comp("times2", <<"a">>),
          d |-> Comp("add", <<"b", "c">>), x |-> NoNode, o |-> Obs("d")]
    [] s = "chain" ->
         [a |-> VarNode, b |-> Comp("plus1", <<"a">>), c |-> Comp("times2", <<"b">>),
          d |-> NoNode, x |-> NoNode, o |-> Obs("c")]
    [] s = "switch" ->
         [a |-> VarNode, b |-> VarNode, c |-> VarNode,
          d |-> Comp("branch", <<"a", "b", "c">>), x |-> NoNode, o |-> NoNode]
    [] s = "stale" ->
         [a |-> VarNode, x |-> VarNode, b |-> Comp("plus1", <<"x">>), c |-> VarNode,
          d |-> Comp("branch", <<"a", "b", "c">>), o |-> NoNode]
    [] s = "cutoff" ->
         [a |-> VarNode, b |-> Comp("mod2", <<"a">>), c |-> Comp("plus1", <<"b">>),
          d |-> NoNode, x |-> NoNode, o |-> NoNode]
    [] s = "error" ->
         [a |-> VarNode, b |-> Comp("raise2", <<"a">>), c |-> Comp("plus1", <<"a">>),
          d |-> Comp("add", <<"a", "c">>), x |-> NoNode, o |-> NoNode]
    [] s = "obs_error" ->
         [a |-> VarNode, o |-> ObsAction("raise2", <<"a">>), d |-> Obs("a"),
          b |-> NoNode, c |-> NoNode, x |-> NoNode]
    [] s = "stream" ->
         [a |-> SourceNode, x |-> SourceNode, o |-> StreamObs("a"),
          d |-> StreamObs("x"), b |-> NoNode, c |-> NoNode]
    [] s = "flow" ->
         [a |-> SourceNode, x |-> SourceNode, b |-> FlowNode(<<"a", "x">>, "stop"),
          c |-> FlowNode(<<"x">>, "raise"), o |-> StreamObs("a"), d |-> NoNode]
    [] s = "track" ->
         [a |-> VarNode, x |-> VarNode, b |-> Comp("const0", <<>>),
          c |-> Comp("const0", <<>>), d |-> Obs("none"), o |-> Obs("none")]
    [] s = "links" ->
         [a |-> VarNode, x |-> VarNode, b |-> Comp("const0", <<>>),
          c |-> NoNode, d |-> NoNode, o |-> Obs("none")]

Range(f) == {f[i] : i \in DOMAIN f}

VARIABLES
  scn,        \* the client program being run
  exists,     \* the nodes constructed so far
  current,    \* Var.__current
  state,      \* Computed.__state, a (level, result) pair
  hard_refs,  \* Emitter.__hard_refs
  weak_refs,  \* Emitter.__weak_refs, per emitter
  parents,    \* Reactor.__parents
  pc,         \* position inside Propagator.propagate: idle, loop, groups
  pings,      \* the local pings of propagate
  groups,     \* the groups of the current batch still to be pinged
  invoked,    \* the reactors pinged by the current client call, in order
  lastTodo,   \* what the last ping returned
  rec,        \* the values each observer's on_value received
  raised,     \* the exception the last client call raised, or none
  lastOp,     \* the last client call
  nwaves,     \* the number of direct propagate calls made
  cut,        \* the Computeds pinged by the current call whose state was unchanged
  nmut,       \* the number of update, emit, propagate and dispose calls so far (2: several)
  invLevels,  \* the level each reactor of invoked had when it was pinged
  cbcalls,    \* the callbacks invoked by the current client call, in order
  t_current,  \* tracking.__current
  t_stack,    \* tracking.__stack
  evals,      \* the evaluations in progress, each with the frames it began under
  restored,   \* whether the last evaluation that ended left the frames it began under
  gen         \* per flow stream: its generator's progress and __to_emit

vars == <<scn, exists, current, state, hard_refs, weak_refs, parents, pc, pings,
          groups, invoked, invLevels, cbcalls, lastTodo, rec, raised, lastOp, nwaves,
          cut, nmut, t_current, t_stack, evals, restored, gen>>

Kind(n) == Table(scn)[n].kind
IsEmitter(n) == Kind(n) \in {"Var", "Computed", "Source", "Flow"}
IsReactor(n) == Kind(n) \in {"Computed", "Observer", "StreamObserver", "Flow"}

(* ---------------------------------------------------------------------- *)
(* core.py: the graph.  G is a record of the three edge stores.           *)
(* __hard_refs and __parents are class attributes that are only ever      *)
(* mutated in place, so every emitter and every reactor sees the same     *)
(* set; __weak_refs is rebound per instance by __compact_weak_refs.       *)
(* ---------------------------------------------------------------------- *)
\* n counts the calls of a link or unlink chain that found something to do
Graph == [hard |-> hard_refs, weak |-> weak_refs, par |-> parents, n |-> 0]

Did(G) == [G EXCEPT !.n = @ + 1]

\* Emitter.children
children(G, e) == G.hard \cup G.weak[e]

\* Reactor.parents
parentsOf(G, r) == G.par

HasChild(G, e, r) == r \in G.hard \/ r \in G.weak[e]

AddChild(G, e, r, keep_alive) ==
  IF keep_alive THEN [G EXCEPT !.hard = @ \cup {r}]
  ELSE [G EXCEPT !.weak[e] = @ \cup {r}]

RECURSIVE link_child(_, _, _, _), link_parent(_, _, _)
RECURSIVE unlink_child(_, _, _), unlink_parent(_, _, _)

\* Emitter.link_child
link_child(G, e, r, keep_alive) ==
  IF HasChild(G, e, r) THEN G
  ELSE link_parent(Did(AddChild(G, e, r, keep_alive)), r, e)

\* Reactor.link_parent
link_parent(G, r, e) ==
  IF e \notin G.par
  THEN link_child(Did([G EXCEPT !.par = @ \cup {e}]), e, r, FALSE)
  ELSE G

\* Emitter.unlink_child
unlink_child(G, e, r) ==
  IF r \in G.hard
  THEN unlink_parent(Did([G EXCEPT !.hard = @ \ {r}]), r, e)
  ELSE IF r \in G.weak[e]
       THEN unlink_parent(Did([G EXCEPT !.weak[e] = @ \ {r}]), r, e)
       ELSE G

\* Reactor.unlink_parent
unlink_parent(G, r, e) ==
  IF e \in G.par
  THEN unlink_child(Did([G EXCEPT !.par = @ \ {e}]), e, r)
  ELSE G

(* ---------------------------------------------------------------------- *)
(* signal.py: levels, current values and evaluation                        *)
(* ---------------------------------------------------------------------- *)
NoState == [level |-> 0, res |-> NoResult]

\* tracking.__current when it is None
NoFrame == [owner |-> "none", keep |-> FALSE]

\* observers that report the level of a root
Level_flat(st, n) ==
  IF Kind(n) = "Computed" THEN st[n].level ELSE 0

\* Node.level
Level(st, n) ==
  IF Kind(n) = "Computed" THEN st[n].level
  ELSE IF Kind(n) \in {"Observer", "StreamObserver"} THEN Inf
  ELSE IF Kind(n) = "Flow" THEN NoLevel
  ELSE 0

\* Signal.to_result: the current value of a signal, or its stored error
Now(cur, st, n) ==
  IF Kind(n) = "Var" THEN Success(cur[n]) ELSE st[n].res

\* the client's calc functions: the signals read, in order, and the outcome
Eval(op, args, cur, st) ==
  CASE op = "const0" -> [reads |-> <<>>, res |-> Success(0)]
    [] op = "plus1" ->
         LET r == Now(cur, st, args[1])
         IN [reads |-> <<args[1]>>,
             res |-> IF IsSuccess(r) THEN Success(r.val + 1) ELSE r]
    [] op = "times2" ->
         LET r == Now(cur, st, args[1])
         IN [reads |-> <<args[1]>>,
             res |-> IF IsSuccess(r) THEN Success(r.val * 2) ELSE r]
    [] op = "mod2" ->
         LET r == Now(cur, st, args[1])
         IN [reads |-> <<args[1]>>,
             res |-> IF IsSuccess(r) THEN Success(r.val % 2) ELSE r]
    [] op = "raise2" ->
         LET r == Now(cur, st, args[1])
         IN [reads |-> <<args[1]>>,
             res |-> IF IsSuccess(r) /\ r.val # 2 THEN Success(r.val)
                     ELSE Failure(0)]
    [] op = "add" ->
         LET r1 == Now(cur, st, args[1])
             r2 == Now(cur, st, args[2])
         IN IF ~IsSuccess(r1) THEN [reads |-> <<args[1]>>, res |-> r1]
            ELSE [reads |-> <<args[1], args[2]>>,
                  res |-> IF IsSuccess(r2) THEN Success(r1.val + r2.val) ELSE r2]
    [] op = "branch" ->
         LET r1 == Now(cur, st, args[1])
         IN IF ~IsSuccess(r1) THEN [reads |-> <<args[1]>>, res |-> r1]
            ELSE IF r1.val # 0
                 THEN [reads |-> <<args[1], args[2]>>, res |-> Now(cur, st, args[2])]
                 ELSE [reads |-> <<args[1], args[3]>>, res |-> Now(cur, st, args[3])]
    [] op = "observe" ->
         IF args[1] = "none" THEN [reads |-> <<>>, res |-> Success(0)]
         ELSE [reads |-> <<args[1]>>, res |-> Now(cur, st, args[1])]

\* the tracking callback applied to every signal read: dep.link_child(self)
RECURSIVE LinkReads(_, _, _, _)
LinkReads(G, reads, n, keep_alive) ==
  IF reads = <<>> THEN G
  ELSE LinkReads(link_child(G, Head(reads), n, keep_alive), Tail(reads), n, keep_alive)

MaxOf(S) == CHOOSE m \in S : \A k \in S : k <= m

\* Computed.__recalculate: the new (level, result) and the graph after linking
Recalculate(G, n, cur, st) ==
  LET ev == Eval(Table(scn)[n].op, Table(scn)[n].args, cur, st)
      levels == {Level(st, ev.reads[i]) : i \in DOMAIN ev.reads}
  IN [G |-> LinkReads(G, ev.reads, n, FALSE),
      st |-> [level |-> IF levels = {} THEN 0 ELSE MaxOf(levels) + 1,
              res |-> ev.res]]

\* Observer.__do_action, with the action built by Signal.observe or an
\* action of the client
DoAction(G, n, cur, st) ==
  LET ev == Eval(Table(scn)[n].op, Table(scn)[n].args, cur, st)
  IN [G |-> LinkReads(G, ev.reads, n, TRUE),
      res |-> ev.res,
      raises |-> ~IsSuccess(ev.res)]

(* ---------------------------------------------------------------------- *)
(* core.py: Propagator.propagate, one step per loop iteration and per ping *)
(* A ping is the pair (emitter, target).  Computed.ping returns pairs      *)
(* (child, result); propagate stores each returned pair as the target of  *)
(* a new ping, which the field tup records.                               *)
(* ---------------------------------------------------------------------- *)
Ping(e, r) == [e |-> e, r |-> r, res |-> NoResult, tup |-> FALSE]
TuplePing(e, c, res) == [e |-> e, r |-> c, res |-> res, tup |-> TRUE]

\* pings = { (source, r) for r in source.children }
Seed(G, s) == {Ping(s, r) : r \in children(G, s)}

\* a propagate that takes the highest pending level first
MinLevel_max(st, ps) ==
  CHOOSE m \in {Level(st, p.r) : p \in ps} :
    \A p \in ps : m >= Level(st, p.r)

\* min_level = min((r.level for (_, r) in pings))
MinLevel(st, ps) ==
  CHOOSE m \in {Level(st, p.r) : p \in ps} :
    \A p \in ps : m <= Level(st, p.r)

\* now = { p for p in pings if p[1].level == min_level }
NowOf(st, ps) == {p \in ps : Level(st, p.r) = MinLevel(st, ps)}

\* a propagate that forgets to take the due pings out of the pending set
Remaining_keep(ps, now) == ps

\* pings -= now
Remaining(ps, now) == ps \ now

\* the orders in which iterating the set now can yield its elements
Orders(S) ==
  {f \in [1..Cardinality(S) -> S] : \A i, j \in DOMAIN f : f[i] = f[j] => i = j}

\* itertools.groupby(now, lambda p: p[1]): runs of consecutive equal targets
RECURSIVE GroupBy(_)
GroupBy(seq) ==
  IF seq = <<>> THEN <<>>
  ELSE LET rest == GroupBy(Tail(seq))
           h == Head(seq)
       IN IF rest # <<>> /\ rest[1].r = h.r
          THEN <<[r |-> h.r, es |-> rest[1].es \cup {h.e}]>> \o Tail(rest)
          ELSE <<[r |-> h.r, es |-> {h.e}]>> \o rest

\* a Computed.ping that never takes the early return
StateUnchanged_never(new, old) == FALSE

\* if new_state == self.__state: return set()
StateUnchanged(new, old) == new = old

\* { (c, self.__state[1]) for c in self.children }
ComputedTodo(G, n, new, old) ==
  IF StateUnchanged(new, old) THEN {}
  ELSE {[r |-> c, res |-> new.res] : c \in children(G, n)}

\* a Var.update without the comparison with the stored value
ValueChanged_always(v, x) == TRUE

\* if new_value != self.__current
ValueChanged(v, x) == x # current[v]

Op(kind, n, changed, wave) ==
  [kind |-> kind, node |-> n, em |-> n, changed |-> changed, wave |-> wave,
   arg |-> 0, calls |-> 0]

LinkOp(kind, e, r, calls) ==
  [kind |-> kind, node |-> r, em |-> e, changed |-> FALSE, wave |-> FALSE,
   arg |-> 0, calls |-> calls]

EmitOp(s, v) == [Op("emit", s, TRUE, TRUE) EXCEPT !.arg = v]

Call(owner, arg) == [owner |-> owner, arg |-> arg]

\* eventstream.Observer.ping(incoming): the outcomes the iteration order
\* allows.  Each element of incoming is unpacked as (emitter, result); the
\* first one whose emitter is in self.parents is dispatched.
StreamObserverPing(G, r, incoming) ==
  {[raises |-> "TypeError", calls |-> <<>>, val |-> 0] : i \in {j \in incoming : ~j.pair}}
  \cup {IF IsSuccess(i.res)
        THEN [raises |-> "none", calls |-> <<Call(r, "on_value")>>, val |-> i.res.val]
        ELSE [raises |-> "CalcError", calls |-> <<Call(r, "on_error")>>, val |-> 0] :
        i \in {j \in incoming : j.pair /\ j.e \in parentsOf(G, r)}}
  \cup {[raises |-> "none", calls |-> <<>>, val |-> 0] :
        i \in {j \in {0} : \A k \in incoming : k.pair /\ k.e \notin parentsOf(G, r)}}

\* r.ping({ e for (e, _) in ps }): what propagate passes as incoming
Incoming(es) == {[e |-> e, res |-> NoResult, pair |-> FALSE] : e \in es}

\* a generator that has yielded nothing yet, and an empty __to_emit
NoGen == [pos |-> 0, done |-> FALSE, to_emit |-> NoResult]

\* flow.EventStream.ping from the resumption of the generator on: the
\* generator yields the next emitter and the stream is rebound, or the
\* generator ends and the stream is unbound; then __to_emit is emitted
Resume(G, r, prev, res, g) ==
  LET body == Table(scn)[r]
      more == IsSuccess(res) /\ ~g.done /\ g.pos < Len(body.args)
      fut == body.args[g.pos + 1]
      isErr == IF IsSuccess(res) THEN ~g.done /\ body.op = "raise" ELSE TRUE
      G1 == IF more
            THEN IF prev # fut
                 THEN link_child(unlink_child(G, prev, r), fut, r, FALSE)
                 ELSE G
            ELSE unlink_child(G, prev, r)
      val == IF ~more /\ isErr THEN Failure(0) ELSE g.to_emit
  IN [raises |-> "none",
      G |-> G1,
      g |-> [pos |-> IF more THEN g.pos + 1 ELSE g.pos,
             done |-> ~more,
             to_emit |-> NoResult],
      todo |-> IF val # NoResult
               THEN {[r |-> c, res |-> val] : c \in children(G1, r)}
               ELSE {}]

\* flow.EventStream.ping: i[0] of an element that is not a pair raises
\* TypeError; the first pair from a parent resumes the generator; when no
\* element comes from a parent nothing is done
FlowStreamPing(G, r, incoming, g) ==
  {[raises |-> "TypeError", G |-> G, g |-> g, todo |-> {}] :
     i \in {j \in incoming : ~j.pair}}
  \cup {Resume(G, r, i.e, i.res, g) :
          i \in {j \in incoming : j.pair /\ j.e \in parentsOf(G, r)}}
  \cup {[raises |-> "none", G |-> G, g |-> g, todo |-> {}] :
          i \in {j \in {0} : \A k \in incoming : k.pair /\ k.e \notin parentsOf(G, r)}}

Bump(n) == IF n < 2 THEN n + 1 ELSE n

Count(seq, n) == Cardinality({i \in DOMAIN seq : seq[i] = n})

(* ---------------------------------------------------------------------- *)
(* Client calls                                                            *)
(* ---------------------------------------------------------------------- *)
waveVars == <<pc, pings, groups>>
trackVars == <<t_current, t_stack, evals, restored>>
flowVars == <<gen>>
graphVars == <<hard_refs, weak_refs, parents>>

SetGraph(G) ==
  /\ hard_refs' = G.hard
  /\ weak_refs' = G.weak
  /\ parents' = G.par

\* Var(initial)
NewVar(n, v) ==
  /\ pc = "idle"
  /\ n \notin exists
  /\ Kind(n) = "Var"
  /\ exists' = exists \cup {n}
  /\ current' = [current EXCEPT ![n] = v]
  /\ invoked' = <<>>
  /\ invLevels' = <<>>
  /\ cbcalls' = <<>>
  /\ lastTodo' = {}
  /\ raised' = "none"
  /\ lastOp' = Op("Var", n, FALSE, FALSE)
  /\ cut' = {}
  /\ UNCHANGED <<scn, state, graphVars, waveVars, rec, nwaves, nmut>>
  /\ UNCHANGED trackVars
  /\ UNCHANGED flowVars

\* Computed(calc)
NewComputed(n) ==
  /\ pc = "idle"
  /\ n \notin exists
  /\ Kind(n) = "Computed"
  /\ Range(Table(scn)[n].args) \subseteq exists
  /\ LET rc == Recalculate(Graph, n, current, state)
     IN /\ state' = [state EXCEPT ![n] = rc.st]
        /\ SetGraph(rc.G)
  /\ exists' = exists \cup {n}
  /\ invoked' = <<>>
  /\ invLevels' = <<>>
  /\ cbcalls' = <<>>
  /\ lastTodo' = {}
  /\ raised' = "none"
  /\ lastOp' = Op("Computed", n, FALSE, FALSE)
  /\ cut' = {}
  /\ UNCHANGED <<scn, current, waveVars, rec, nwaves, nmut>>
  /\ UNCHANGED trackVars
  /\ UNCHANGED flowVars

\* signal.observe(on_value): Observer(action), which runs the action once
NewObserver(n) ==
  /\ pc = "idle"
  /\ n \notin exists
  /\ Kind(n) = "Observer"
  /\ Range(Table(scn)[n].args) \subseteq exists
  /\ LET da == DoAction(Graph, n, current, state)
     IN /\ SetGraph(da.G)
        /\ rec' = IF da.raises THEN rec
                  ELSE [rec EXCEPT ![n] = Append(@, da.res.val)]
        /\ raised' = IF da.raises THEN "CalcError" ELSE "none"
  /\ exists' = exists \cup {n}
  /\ invoked' = <<>>
  /\ invLevels' = <<>>
  /\ cbcalls' = <<>>
  /\ lastTodo' = {}
  /\ lastOp' = Op("Observer", n, FALSE, FALSE)
  /\ cut' = {}
  /\ UNCHANGED <<scn, current, state, waveVars, nwaves, nmut>>
  /\ UNCHANGED trackVars
  /\ UNCHANGED flowVars

\* EventSource()
NewSource(n) ==
  /\ pc = "idle"
  /\ n \notin exists
  /\ Kind(n) = "Source"
  /\ exists' = exists \cup {n}
  /\ invoked' = <<>>
  /\ invLevels' = <<>>
  /\ cbcalls' = <<>>
  /\ lastTodo' = {}
  /\ raised' = "none"
  /\ lastOp' = Op("Source", n, FALSE, FALSE)
  /\ cut' = {}
  /\ UNCHANGED <<scn, current, state, graphVars, waveVars, rec, nwaves, nmut>>
  /\ UNCHANGED trackVars
  /\ UNCHANGED flowVars

\* events.observe(on_value): eventstream.Observer(events, on_value)
NewStreamObserver(n) ==
  /\ pc = "idle"
  /\ n \notin exists
  /\ Kind(n) = "StreamObserver"
  /\ Range(Table(scn)[n].args) \subseteq exists
  /\ SetGraph(link_child(Graph, Table(scn)[n].args[1], n, TRUE))
  /\ exists' = exists \cup {n}
  /\ invoked' = <<>>
  /\ invLevels' = <<>>
  /\ cbcalls' = <<>>
  /\ lastTodo' = {}
  /\ raised' = "none"
  /\ lastOp' = Op("StreamObserver", n, FALSE, FALSE)
  /\ cut' = {}
  /\ UNCHANGED <<scn, current, state, waveVars, rec, nwaves, nmut>>
  /\ UNCHANGED trackVars
  /\ UNCHANGED flowVars

\* flow.EventStream(body): the generator is started and the stream is bound
\* to the first emitter it yields
NewFlow(n) ==
  /\ pc = "idle"
  /\ n \notin exists
  /\ Kind(n) = "Flow"
  /\ Range(Table(scn)[n].args) \subseteq exists
  /\ SetGraph(link_child(Graph, Table(scn)[n].args[1], n, FALSE))
  /\ gen' = [gen EXCEPT ![n] = [NoGen EXCEPT !.pos = 1]]
  /\ exists' = exists \cup {n}
  /\ invoked' = <<>>
  /\ invLevels' = <<>>
  /\ cbcalls' = <<>>
  /\ lastTodo' = {}
  /\ raised' = "none"
  /\ lastOp' = Op("Flow", n, FALSE, FALSE)
  /\ cut' = {}
  /\ UNCHANGED <<scn, current, state, waveVars, rec, nwaves, nmut>>
  /\ UNCHANGED trackVars

\* r << v: the value is kept in __to_emit for the next ping
FlowPush(r, v) ==
  /\ pc = "idle"
  /\ r \in exists
  /\ Kind(r) = "Flow"
  /\ gen' = [gen EXCEPT ![r].to_emit = Success(v)]
  /\ invoked' = <<>>
  /\ invLevels' = <<>>
  /\ cbcalls' = <<>>
  /\ lastTodo' = {}
  /\ raised' = "none"
  /\ lastOp' = [Op("lshift", r, FALSE, FALSE) EXCEPT !.arg = v]
  /\ cut' = {}
  /\ UNCHANGED <<scn, exists, current, state, graphVars, waveVars, rec, nwaves, nmut>>
  /\ UNCHANGED trackVars

\* r.ping({(e, Success(v))}), called by the client with the pair the
\* docstring of the stream observers expects
CallPing(r, e, v) ==
  /\ pc = "idle"
  /\ {r, e} \subseteq exists
  /\ Kind(r) = "Flow" /\ Kind(e) = "Source"
  /\ nwaves < MaxWaves
  /\ nwaves' = nwaves + 1
  /\ \E out \in FlowStreamPing(Graph, r,
                                {[e |-> e, res |-> Success(v), pair |-> TRUE]}, gen[r]) :
       /\ SetGraph(out.G)
       /\ gen' = [gen EXCEPT ![r] = out.g]
       /\ lastTodo' = out.todo
       /\ raised' = out.raises
  /\ invoked' = <<r>>
  /\ invLevels' = <<>>
  /\ cbcalls' = <<>>
  /\ lastOp' = [Op("ping", r, FALSE, FALSE) EXCEPT !.em = e, !.arg = v]
  /\ cut' = {}
  /\ nmut' = Bump(nmut)
  /\ UNCHANGED <<scn, exists, current, state, waveVars, rec>>
  /\ UNCHANGED trackVars

\* EventSource.emit(value): the call propagator.propagate(self, Success(value))
\* passes one argument more than propagate accepts and raises TypeError
Emit(s, v) ==
  /\ pc = "idle"
  /\ s \in exists
  /\ Kind(s) = "Source"
  /\ invoked' = <<>>
  /\ invLevels' = <<>>
  /\ cbcalls' = <<>>
  /\ lastTodo' = {}
  /\ lastOp' = EmitOp(s, v)
  /\ IF EmitCallArgs = PropagateParams
     THEN /\ pings' = Seed(Graph, s)
          /\ pc' = "loop"
          /\ raised' = "none"
     ELSE /\ raised' = "TypeError"
          /\ UNCHANGED <<pc, pings>>
  /\ cut' = {}
  /\ nmut' = Bump(nmut)
  /\ UNCHANGED <<scn, exists, current, state, graphVars, groups, rec, nwaves>>
  /\ UNCHANGED trackVars
  /\ UNCHANGED flowVars

\* Var.update(new_value): the call propagator.propagate(self, Success(...))
\* passes one argument more than propagate accepts and raises TypeError
\* after the new value is stored
Update(v, x) ==
  /\ pc = "idle"
  /\ v \in exists
  /\ Kind(v) = "Var"
  /\ invoked' = <<>>
  /\ invLevels' = <<>>
  /\ cbcalls' = <<>>
  /\ lastTodo' = {}
  /\ IF ValueChanged(v, x)
     THEN /\ current' = [current EXCEPT ![v] = x]
          /\ lastOp' = Op("update", v, TRUE, TRUE)
          /\ IF UpdateCallArgs = PropagateParams
             THEN /\ pings' = Seed(Graph, v)
                  /\ pc' = "loop"
                  /\ raised' = "none"
             ELSE /\ raised' = "TypeError"
                  /\ UNCHANGED <<pc, pings>>
     ELSE /\ lastOp' = Op("update", v, FALSE, FALSE)
          /\ raised' = "none"
          /\ UNCHANGED <<current, pc, pings>>
  /\ cut' = {}
  /\ nmut' = Bump(nmut)
  /\ UNCHANGED <<scn, exists, state, graphVars, groups, rec, nwaves>>
  /\ UNCHANGED trackVars
  /\ UNCHANGED flowVars

\* Propagator.instance().propagate(source), called by the client
Propagate(s) ==
  /\ pc = "idle"
  /\ s \in exists
  /\ Kind(s) \in {"Var", "Source"}
  /\ nwaves < MaxWaves
  /\ nwaves' = nwaves + 1
  /\ pings' = Seed(Graph, s)
  /\ pc' = "loop"
  /\ invoked' = <<>>
  /\ invLevels' = <<>>
  /\ cbcalls' = <<>>
  /\ lastTodo' = {}
  /\ raised' = "none"
  /\ lastOp' = Op("propagate", s, FALSE, TRUE)
  /\ cut' = {}
  /\ nmut' = Bump(nmut)
  /\ UNCHANGED <<scn, exists, current, state, graphVars, groups, rec>>
  /\ UNCHANGED trackVars
  /\ UNCHANGED flowVars

\* while len(pings) != 0: the head of one iteration, up to the grouping
Loop ==
  /\ pc = "loop"
  /\ IF pings = {}
     THEN /\ pc' = "idle"
          /\ UNCHANGED <<pings, groups, raised>>
     ELSE IF \E p \in pings : p.tup
          THEN \* a (child, result) tuple has no attribute level
               /\ raised' = "AttributeError"
               /\ pc' = "idle"
               /\ pings' = {}
               /\ UNCHANGED groups
          ELSE IF /\ Cardinality(pings) > 1
                  /\ \E p \in pings : Level(state, p.r) = NoLevel
          THEN \* min() compares None with another level
               /\ raised' = "TypeError"
               /\ pc' = "idle"
               /\ pings' = {}
               /\ UNCHANGED groups
          ELSE LET now == NowOf(state, pings)
               IN /\ \E order \in Orders(now) : groups' = GroupBy(order)
                  /\ pings' = Remaining(pings, now)
                  /\ pc' = "groups"
                  /\ UNCHANGED raised
  /\ UNCHANGED <<scn, exists, current, state, graphVars, invoked, invLevels, cbcalls,
                 lastTodo, rec,
                 lastOp, nwaves, cut, nmut>>
  /\ UNCHANGED trackVars
  /\ UNCHANGED flowVars

\* todo = r.ping(...) for a Computed, and the pings added for its todo
PingComputed(r) ==
  LET rc == Recalculate(Graph, r, current, state)
      todo == ComputedTodo(rc.G, r, rc.st, state[r])
  IN /\ SetGraph(rc.G)
     /\ state' = [state EXCEPT ![r] = rc.st]
     /\ lastTodo' = todo
     /\ cut' = IF rc.st = state[r] THEN cut \cup {r} ELSE cut
     /\ pings' = pings \cup {TuplePing(r, t.r, t.res) : t \in todo}
     /\ groups' = Tail(groups)
     /\ pc' = IF Tail(groups) = <<>> THEN "loop" ELSE "groups"
     /\ UNCHANGED <<rec, raised, cbcalls, flowVars>>

\* an Observer.ping that swallows the error of its action
PingObserver_catch(r) ==
  LET da == DoAction(Graph, r, current, state)
  IN /\ SetGraph(da.G)
     /\ lastTodo' = {}
     /\ rec' = IF da.raises THEN rec ELSE [rec EXCEPT ![r] = Append(@, da.res.val)]
     /\ groups' = Tail(groups)
     /\ pc' = IF Tail(groups) = <<>> THEN "loop" ELSE "groups"
     /\ UNCHANGED <<pings, raised, state, cut, cbcalls, flowVars>>

\* todo = r.ping(...) for a signal Observer: an error of the action unwinds
\* through propagate
PingObserver(r) ==
  LET da == DoAction(Graph, r, current, state)
  IN /\ SetGraph(da.G)
     /\ lastTodo' = {}
     /\ IF da.raises
        THEN /\ raised' = "CalcError"
             /\ pc' = "idle"
             /\ pings' = {}
             /\ groups' = <<>>
             /\ UNCHANGED rec
        ELSE /\ rec' = [rec EXCEPT ![r] = Append(@, da.res.val)]
             /\ groups' = Tail(groups)
             /\ pc' = IF Tail(groups) = <<>> THEN "loop" ELSE "groups"
             /\ UNCHANGED <<pings, raised>>
     /\ UNCHANGED <<state, cut, cbcalls, flowVars>>

\* todo = r.ping(...) for a stream Observer
PingStreamObserver(r) ==
  \E out \in StreamObserverPing(Graph, r, Incoming(Head(groups).es)) :
    /\ lastTodo' = {}
    /\ cbcalls' = cbcalls \o out.calls
    /\ rec' = IF out.raises = "none" /\ out.calls # <<>>
              THEN [rec EXCEPT ![r] = Append(@, out.val)] ELSE rec
    /\ IF out.raises # "none"
       THEN /\ raised' = out.raises
            /\ pc' = "idle"
            /\ pings' = {}
            /\ groups' = <<>>
       ELSE /\ groups' = Tail(groups)
            /\ pc' = IF Tail(groups) = <<>> THEN "loop" ELSE "groups"
            /\ UNCHANGED <<pings, raised>>
    /\ UNCHANGED <<state, cut, graphVars, flowVars>>

\* todo = r.ping(...) for a flow stream, and the pings added for its todo
PingFlow(r) ==
  \E out \in FlowStreamPing(Graph, r, Incoming(Head(groups).es), gen[r]) :
    /\ lastTodo' = out.todo
    /\ SetGraph(out.G)
    /\ gen' = [gen EXCEPT ![r] = out.g]
    /\ IF out.raises # "none"
       THEN /\ raised' = out.raises
            /\ pc' = "idle"
            /\ pings' = {}
            /\ groups' = <<>>
       ELSE /\ pings' = pings \cup {TuplePing(r, t.r, t.res) : t \in out.todo}
            /\ groups' = Tail(groups)
            /\ pc' = IF Tail(groups) = <<>> THEN "loop" ELSE "groups"
            /\ UNCHANGED raised
    /\ UNCHANGED <<state, cut, rec, cbcalls>>

\* for (r, ps) in itertools.groupby(...): one reactor is pinged
PingNext ==
  /\ pc = "groups"
  /\ groups # <<>>
  /\ LET r == Head(groups).r
     IN /\ invoked' = Append(invoked, r)
        /\ invLevels' = Append(invLevels, Level(state, r))
        /\ CASE Kind(r) = "Computed" -> PingComputed(r)
             [] Kind(r) = "Observer" -> PingObserver(r)
             [] Kind(r) = "StreamObserver" -> PingStreamObserver(r)
             [] Kind(r) = "Flow" -> PingFlow(r)
  /\ UNCHANGED <<scn, exists, current, lastOp, nwaves, nmut>>
  /\ UNCHANGED trackVars

\* Reactor.dispose: self.parents is a property whose value, a frozenset, is
\* then called
Dispose(r) ==
  /\ pc = "idle"
  /\ r \in exists
  /\ IsReactor(r)
  /\ raised' = "TypeError"
  /\ invoked' = <<>>
  /\ invLevels' = <<>>
  /\ cbcalls' = <<>>
  /\ lastTodo' = {}
  /\ lastOp' = Op("dispose", r, FALSE, FALSE)
  /\ cut' = {}
  /\ nmut' = Bump(nmut)
  /\ UNCHANGED <<scn, exists, current, state, graphVars, waveVars, rec, nwaves>>
  /\ UNCHANGED trackVars
  /\ UNCHANGED flowVars

\* e.link_child(r, keep_alive), called by the client
LinkChild(e, r, keep_alive) ==
  /\ pc = "idle"
  /\ {e, r} \subseteq exists /\ IsEmitter(e) /\ IsReactor(r) /\ e # r
  /\ SetGraph(link_child(Graph, e, r, keep_alive))
  /\ lastOp' = LinkOp(IF keep_alive THEN "link_child_hard" ELSE "link_child", e, r,
                      link_child(Graph, e, r, keep_alive).n)
  /\ raised' = "none"
  /\ UNCHANGED <<scn, exists, current, state, waveVars, invoked, invLevels, cbcalls,
                 lastTodo, rec,
                 nwaves, cut, nmut>>
  /\ UNCHANGED trackVars
  /\ UNCHANGED flowVars

\* r.link_parent(e), called by the client
LinkParent(r, e) ==
  /\ pc = "idle"
  /\ {e, r} \subseteq exists /\ IsEmitter(e) /\ IsReactor(r) /\ e # r
  /\ SetGraph(link_parent(Graph, r, e))
  /\ lastOp' = LinkOp("link_parent", e, r, link_parent(Graph, r, e).n)
  /\ raised' = "none"
  /\ UNCHANGED <<scn, exists, current, state, waveVars, invoked, invLevels, cbcalls,
                 lastTodo, rec,
                 nwaves, cut, nmut>>
  /\ UNCHANGED trackVars
  /\ UNCHANGED flowVars

\* e.unlink_child(r), called by the client
UnlinkChild(e, r) ==
  /\ pc = "idle"
  /\ {e, r} \subseteq exists /\ IsEmitter(e) /\ IsReactor(r) /\ e # r
  /\ SetGraph(unlink_child(Graph, e, r))
  /\ lastOp' = LinkOp("unlink_child", e, r, unlink_child(Graph, e, r).n)
  /\ raised' = "none"
  /\ UNCHANGED <<scn, exists, current, state, waveVars, invoked, invLevels, cbcalls,
                 lastTodo, rec,
                 nwaves, cut, nmut>>
  /\ UNCHANGED trackVars
  /\ UNCHANGED flowVars

\* r.unlink_parent(e), called by the client
UnlinkParent(r, e) ==
  /\ pc = "idle"
  /\ {e, r} \subseteq exists /\ IsEmitter(e) /\ IsReactor(r) /\ e # r
  /\ SetGraph(unlink_parent(Graph, r, e))
  /\ lastOp' = LinkOp("unlink_parent", e, r, unlink_parent(Graph, r, e).n)
  /\ raised' = "none"
  /\ UNCHANGED <<scn, exists, current, state, waveVars, invoked, invLevels, cbcalls,
                 lastTodo, rec,
                 nwaves, cut, nmut>>
  /\ UNCHANGED trackVars
  /\ UNCHANGED flowVars

(* ---------------------------------------------------------------------- *)
(* Specification of the client programs                                    *)
(* ---------------------------------------------------------------------- *)
Init ==
  /\ scn \in Scenarios
  /\ exists = {}
  /\ current = [n \in Nodes |-> 0]
  /\ state = [n \in Nodes |-> NoState]
  /\ hard_refs = {}
  /\ weak_refs = [n \in Nodes |-> {}]
  /\ parents = {}
  /\ pc = "idle"
  /\ pings = {}
  /\ groups = <<>>
  /\ invoked = <<>>
  /\ lastTodo = {}
  /\ rec = [n \in Nodes |-> <<>>]
  /\ raised = "none"
  /\ lastOp = Op("none", "a", FALSE, FALSE)
  /\ nwaves = 0
  /\ cut = {}
  /\ nmut = 0
  /\ invLevels = <<>>
  /\ cbcalls = <<>>
  /\ t_current = NoFrame
  /\ t_stack = <<>>
  /\ evals = <<>>
  /\ restored = TRUE
  /\ gen = [n \in Nodes |-> NoGen]

Next ==
  \/ \E n \in Nodes, v \in Values : NewVar(n, v)
  \/ \E n \in Nodes : NewComputed(n)
  \/ \E n \in Nodes : NewObserver(n)
  \/ \E n \in Nodes : NewSource(n)
  \/ \E n \in Nodes : NewStreamObserver(n)
  \/ \E n \in Nodes : NewFlow(n)
  \/ \E r \in Nodes, v \in Values : FlowPush(r, v)
  \/ \E r \in Nodes, e \in Nodes, v \in Values : CallPing(r, e, v)
  \/ \E s \in Nodes, v \in Values : Emit(s, v)
  \/ \E v \in Nodes, x \in Values : Update(v, x)
  \/ \E s \in Nodes : Propagate(s)
  \/ Loop
  \/ PingNext
  \/ \E r \in Nodes : Dispose(r)

Spec == Init /\ [][Next]_vars

(* ---------------------------------------------------------------------- *)
(* Specification of the graph operations: two Vars, a Computed and an      *)
(* Observer whose functions read nothing, and a client that links,        *)
(* unlinks and disposes                                                   *)
(* ---------------------------------------------------------------------- *)
InitLinks ==
  /\ scn = "links"
  /\ exists = {"a", "x", "b", "o"}
  /\ current = [n \in Nodes |-> 0]
  /\ state = [n \in Nodes |-> IF n = "b" THEN [level |-> 0, res |-> Success(0)]
                              ELSE NoState]
  /\ hard_refs = {}
  /\ weak_refs = [n \in Nodes |-> {}]
  /\ parents = {}
  /\ pc = "idle"
  /\ pings = {}
  /\ groups = <<>>
  /\ invoked = <<>>
  /\ lastTodo = {}
  /\ rec = [n \in Nodes |-> <<>>]
  /\ raised = "none"
  /\ lastOp = Op("none", "a", FALSE, FALSE)
  /\ nwaves = 0
  /\ cut = {}
  /\ nmut = 0
  /\ invLevels = <<>>
  /\ cbcalls = <<>>
  /\ t_current = NoFrame
  /\ t_stack = <<>>
  /\ evals = <<>>
  /\ restored = TRUE
  /\ gen = [n \in Nodes |-> NoGen]

NextLinks ==
  \/ \E e \in Nodes, r \in Nodes, k \in BOOLEAN : LinkChild(e, r, k)
  \/ \E e \in Nodes, r \in Nodes : LinkParent(r, e)
  \/ \E e \in Nodes, r \in Nodes : UnlinkChild(e, r)
  \/ \E e \in Nodes, r \in Nodes : UnlinkParent(r, e)
  \/ \E r \in Nodes : Dispose(r)

SpecLinks == InitLinks /\ [][NextLinks]_vars

(* ---------------------------------------------------------------------- *)
(* tracking.py: the frames of the dependency tracker, and the evaluations  *)
(* of signal.py that open and close them.  An evaluation is the function   *)
(* of a Computed or the action of an Observer; it may read signals and     *)
(* may construct further nodes, whose first evaluation nests inside it.    *)
(* ---------------------------------------------------------------------- *)
\* the module globals __current and __stack
Tracker == [cur |-> t_current, stack |-> t_stack]

\* the callback a node passes to tracking.begin
Callback(n) == [owner |-> n, keep |-> Kind(n) = "Observer"]

\* tracking.begin
begin(T, callback) ==
  [cur |-> callback,
   stack |-> IF T.cur # NoFrame THEN Append(T.stack, T.cur) ELSE T.stack]

\* an end that forgets to pop the enclosing frame
end_nopop(T) == [T EXCEPT !.cur = NoFrame]

\* tracking.end
end(T) ==
  IF T.stack # <<>>
  THEN [cur |-> T.stack[Len(T.stack)],
        stack |-> SubSeq(T.stack, 1, Len(T.stack) - 1)]
  ELSE [cur |-> NoFrame, stack |-> T.stack]

\* a register_dependency that notifies the enclosing frames too
register_dependency_all(T, dep) ==
  T.stack \o (IF T.cur # NoFrame THEN <<T.cur>> ELSE <<>>)

\* tracking.register_dependency: the callbacks it calls with dep, in order
register_dependency(T, dep) ==
  IF T.cur # NoFrame THEN <<T.cur>> ELSE <<>>

RECURSIVE RunCallbacks(_, _, _)
\* the link_child calls of the callbacks cs called with dep
RunCallbacks(G, cs, dep) ==
  IF cs = <<>> THEN G
  ELSE RunCallbacks(link_child(G, dep, Head(cs).owner, Head(cs).keep),
                    Tail(cs), dep)

\* the nodes whose evaluation is in progress
Evaluating == {evals[i].owner : i \in DOMAIN evals}

\* the signals the function of n may read: Computeds read the signals made
\* before them, observers read any signal
MayRead(n) ==
  CASE n = "b" -> {"a", "x"}
    [] n = "c" -> {"a", "x", "b"}
    [] OTHER -> {"a", "x", "b", "c"}

\* Computed.__recalculate up to tracking.begin, or Observer.__do_action up
\* to tracking.begin
TBegin(n) ==
  /\ n \in exists /\ Kind(n) \in {"Computed", "Observer"}
  /\ n \notin Evaluating
  /\ Len(evals) < MaxDepth
  /\ evals # <<>> => raised = "none"
  /\ t_current' = begin(Tracker, Callback(n)).cur
  /\ t_stack' = begin(Tracker, Callback(n)).stack
  /\ evals' = Append(evals, [owner |-> n, saved |-> Tracker, levels |-> {}])
  /\ raised' = "none"
  /\ cbcalls' = <<>>
  /\ lastOp' = Op("begin", n, FALSE, FALSE)
  /\ UNCHANGED <<scn, exists, current, state, graphVars, waveVars, invoked,
                 invLevels, lastTodo, rec, nwaves, cut, nmut, restored, gen>>

\* dep.apply(): Signal.apply called by the running function, or by the
\* client when nothing is running
TRead(dep) ==
  /\ dep \in exists /\ Kind(dep) \in {"Var", "Computed"}
  /\ dep \notin Evaluating
  /\ evals # <<>> => /\ raised = "none"
                     /\ dep \in MayRead(evals[Len(evals)].owner)
  /\ LET cs == register_dependency(Tracker, dep)
         G == RunCallbacks(Graph, cs, dep)
         notified == {cs[k].owner : k \in {j \in DOMAIN cs : ~cs[j].keep}}
     IN /\ SetGraph(G)
        /\ cbcalls' = [k \in DOMAIN cs |-> Call(cs[k].owner, 0)]
        /\ evals' = [i \in DOMAIN evals |->
                       IF evals[i].owner \in notified
                       THEN [evals[i] EXCEPT !.levels = @ \cup {Level(state, dep)}]
                       ELSE evals[i]]
        /\ lastOp' = LinkOp("read", dep, t_current.owner, G.n)
  /\ UNCHANGED <<scn, exists, current, state, waveVars, invoked, invLevels,
                 lastTodo, rec, raised, nwaves, cut, nmut, t_current, t_stack,
                 restored, gen>>

\* the rest of Computed.__recalculate or Observer.__do_action: the function
\* returns or raises, the finally clause runs tracking.end; a Computed keeps
\* the error as its result, an Observer lets it unwind into the evaluation
\* around it
TEnd(raises) ==
  /\ evals # <<>>
  /\ raised # "none" => raises
  /\ LET ev == evals[Len(evals)]
         T == end(Tracker)
     IN /\ t_current' = T.cur
        /\ t_stack' = T.stack
        /\ restored' = (T = ev.saved)
        /\ evals' = SubSeq(evals, 1, Len(evals) - 1)
        /\ state' = IF Kind(ev.owner) = "Computed"
                    THEN [state EXCEPT ![ev.owner] =
                            [level |-> IF ev.levels = {} THEN 0
                                       ELSE MaxOf(ev.levels) + 1,
                             res |-> IF raises THEN Failure(0) ELSE Success(0)]]
                    ELSE state
        /\ raised' = IF raises /\ Kind(ev.owner) = "Observer" THEN "CalcError"
                     ELSE "none"
        /\ lastOp' = Op("end", ev.owner, raises, FALSE)
  /\ cbcalls' = <<>>
  /\ UNCHANGED <<scn, exists, current, graphVars, waveVars, invoked, invLevels,
                 lastTodo, rec, nwaves, cut, nmut, gen>>

InitTrack ==
  /\ scn = "track"
  /\ exists = {"a", "b", "c", "d", "o"}
  /\ current = [n \in Nodes |-> 0]
  /\ state = [n \in Nodes |-> IF n \in {"b", "c"}
                              THEN [level |-> 0, res |-> Success(0)]
                              ELSE NoState]
  /\ hard_refs = {}
  /\ weak_refs = [n \in Nodes |-> {}]
  /\ parents = {}
  /\ pc = "idle"
  /\ pings = {}
  /\ groups = <<>>
  /\ invoked = <<>>
  /\ lastTodo = {}
  /\ rec = [n \in Nodes |-> <<>>]
  /\ raised = "none"
  /\ lastOp = Op("none", "a", FALSE, FALSE)
  /\ nwaves = 0
  /\ cut = {}
  /\ nmut = 0
  /\ invLevels = <<>>
  /\ cbcalls = <<>>
  /\ t_current = NoFrame
  /\ t_stack = <<>>
  /\ evals = <<>>
  /\ restored = TRUE
  /\ gen = [n \in Nodes |-> NoGen]

NextTrack ==
  \/ \E n \in Nodes : TBegin(n)
  \/ \E dep \in Nodes : TRead(dep)
  \/ \E raises \in BOOLEAN : TEnd(raises)

SpecTrack == InitTrack /\ [][NextTrack]_vars

(* ---------------------------------------------------------------------- *)
(* Properties                                                              *)
(* ---------------------------------------------------------------------- *)
Invoked == Range(invoked)

\* the emitters that have r among their children
EmittersOf(r) == {e \in exists : IsEmitter(e) /\ r \in children(Graph, e)}

\* C1: glitch-freedom on the diamond a -> b, a -> c, b -> d, c -> d: once a
\* value-changing a.update(v) is over, d has been invoked exactly once and
\* it ran when b and c both held the values computed from the new a, so
\* b = a + 1, c = 2a and d = b + c = 3a + 1.
C1_GlitchFree ==
  (/\ scn = "diamond"
   /\ {"b", "c", "d"} \subseteq exists
   /\ pc = "idle"
   /\ lastOp.kind = "update" /\ lastOp.node = "a" /\ lastOp.changed)
  => /\ Count(invoked, "d") = 1
     /\ state["b"].res = Success(current["a"] + 1)
     /\ state["c"].res = Success(current["a"] * 2)
     /\ state["d"].res = Success(3 * current["a"] + 1)

\* C2: at-most-once: within one propagate call no reactor is pinged more
\* than once, whatever its number of parents.
C2_AtMostOnce == \A n \in Nodes : Count(invoked, n) <= 1

\* a propagate call has returned after pinging several reactors, one of them
\* a child of two emitters
C2_Witness ==
  /\ pc = "idle"
  /\ lastOp.kind = "propagate"
  /\ raised = "none"
  /\ Len(invoked) >= 2
  /\ \E n \in Invoked : Cardinality(EmittersOf(n)) >= 2

\* C3: level monotonicity: between waves every edge parent -> child has
\* child.level > parent.level.
C3_LevelMonotone ==
  pc = "idle" =>
    \A e \in exists, r \in exists :
      (IsEmitter(e) /\ IsReactor(r) /\ r \in children(Graph, e))
        => Level(state, r) > Level(state, e)

\* C4: edge symmetry: after any sequence of link and unlink calls, r is in
\* e.children if and only if e is in r.parents.
C4_EdgeSymmetry ==
  \A e \in exists, r \in exists :
    (IsEmitter(e) /\ IsReactor(r) /\ e # r)
      => (r \in children(Graph, e) <=> e \in parentsOf(Graph, r))

\* C5: dependency re-discovery: d reads b when a is non-zero and c
\* otherwise; once a wave started on a is over, d is a child of the signal
\* it now reads and not a child of the one it does not read.
C5_Rediscovery ==
  (/\ scn = "switch"
   /\ {"b", "c", "d"} \subseteq exists
   /\ pc = "idle"
   /\ lastOp.kind \in {"update", "propagate"} /\ lastOp.node = "a" /\ lastOp.wave)
  => LET reads == IF current["a"] # 0 THEN "b" ELSE "c"
         other == IF current["a"] # 0 THEN "c" ELSE "b"
     IN /\ "d" \in children(Graph, reads)
        /\ "d" \notin children(Graph, other)

\* C6: lifecycle: dispose() on a reactor completes without error and leaves
\* it with no parents and absent from every emitter's children.
C6_Dispose ==
  (pc = "idle" /\ lastOp.kind = "dispose")
  => /\ raised = "none"
     /\ parentsOf(Graph, lastOp.node) = {}
     /\ EmittersOf(lastOp.node) = {}

\* C7: cut-off: a Computed pinged in a wave whose recomputed (level, result)
\* equals the stored one adds no ping, and a child that only it has as
\* parent is not invoked in that wave.
C7_CutOff ==
  \A n \in cut :
    /\ \A p \in pings : p.e # n
    /\ \A c \in children(Graph, n) : EmittersOf(c) = {n} => c \notin Invoked

\* a propagate call has returned in which b = a % 2 was recomputed for a
\* changed a, was unchanged, and its child c was not invoked
C7_Witness ==
  /\ scn = "cutoff"
  /\ pc = "idle"
  /\ raised = "none"
  /\ "c" \in children(Graph, "b")
  /\ "b" \in cut /\ "b" \in Invoked
  /\ current["a"] = 2 /\ state["b"].res = Success(0)
  /\ "c" \notin Invoked

\* C8: value-gated suppression: Var.update(x) with x equal to the stored
\* value leaves the stored value and every other node as they are, calls no
\* propagate, invokes no reactor and raises nothing.
C8_Suppression ==
  [][\A v \in Nodes, x \in Values :
       (Update(v, x) /\ x = current[v])
         => /\ UNCHANGED <<current, state, graphVars, waveVars, rec>>
            /\ invoked' = <<>>
  /\ invLevels' = <<>>
  /\ cbcalls' = <<>>
            /\ raised' = "none"
            /\ ~lastOp'.wave]_vars

\* an update with the stored value was made on a Var that has children
C8_Witness ==
  /\ lastOp.kind = "update"
  /\ ~lastOp.changed
  /\ pc = "idle"
  /\ children(Graph, lastOp.node) # {}

\* C9: error containment: b raises when a is 2; c = a + 1 and d = a + c do
\* not read b.  Once a wave in which b's function raised is over, c and d
\* have been invoked in it and hold their recomputed values.
C9_Containment ==
  (/\ scn = "error"
   /\ pc = "idle"
   /\ "b" \in Invoked
   /\ ~IsSuccess(state["b"].res))
  => /\ \A n \in {"c", "d"} \cap exists : n \in Invoked
     /\ "c" \in exists => state["c"].res = Success(current["a"] + 1)
     /\ "d" \in exists => state["d"].res = Success(2 * current["a"] + 1)

\* C10: end-to-end chain: a = Var(1), b = a + 1, c = b * 2 and an observer
\* on c that received 4 at construction; after a.update(2), the first
\* change made, b is 3, c is 6 and the observer has received 4 and then 6.
C10_Chain ==
  (/\ scn = "chain"
   /\ {"b", "c", "o"} \subseteq exists
   /\ pc = "idle"
   /\ nmut = 1
   /\ lastOp.kind = "update" /\ lastOp.node = "a" /\ lastOp.changed
   /\ current["a"] = 2
   /\ rec["o"] # <<>> /\ Head(rec["o"]) = 4)
  => /\ state["b"].res = Success(3)
     /\ state["c"].res = Success(6)
     /\ rec["o"] = <<4, 6>>

\* C11: wave completion: in the diamond, whose functions never raise, a
\* value-changing a.update(v) returns normally with no ping pending and
\* with every reactor that reads a, and d that reads them, invoked.
C11_WaveCompletes ==
  (/\ scn = "diamond"
   /\ pc = "idle"
   /\ lastOp.kind = "update" /\ lastOp.node = "a" /\ lastOp.changed)
  => /\ raised = "none"
     /\ pings = {}
     /\ ({"b", "c", "d"} \cap exists) \subseteq Invoked

\* C12: emit never suppresses: the first emit(v) on the source a, made
\* after the stream observer o was attached to a, returns normally having
\* invoked o exactly once, with v.
C12_EmitAlways ==
  (/\ scn = "stream"
   /\ "o" \in exists
   /\ pc = "idle"
   /\ nmut = 1
   /\ lastOp.kind = "emit" /\ lastOp.node = "a")
  => /\ raised = "none"
     /\ Count(invoked, "o") = 1
     /\ rec["o"] = <<lastOp.arg>>

\* C13: non-decreasing level order: within one propagate call the levels the
\* pinged reactors had when they were pinged never decrease.
C13_LevelOrder ==
  \A i, j \in DOMAIN invLevels : i < j => invLevels[i] <= invLevels[j]

\* a propagate call has returned after pinging two reactors of level 1 and
\* then one of level 2
C13_Witness ==
  /\ pc = "idle"
  /\ lastOp.kind = "propagate"
  /\ raised = "none"
  /\ invLevels = <<1, 1, 2>>

\* the signal an observer built by Signal.observe reads
Target(n) == Table(scn)[n].args[1]

\* C14: observers run last: within one propagate call no Computed is pinged
\* after a signal Observer, and the value an Observer received is the value
\* its signal holds from then on.
C14_ObserversLast ==
  /\ \A i, j \in DOMAIN invoked :
       (i < j /\ Kind(invoked[i]) = "Observer") => Kind(invoked[j]) # "Computed"
  /\ \A n \in Invoked :
       (Kind(n) = "Observer" /\ Table(scn)[n].op = "observe" /\ raised = "none")
         => /\ rec[n] # <<>>
            /\ Now(current, state, Target(n)) = Success(rec[n][Len(rec[n])])

\* a propagate call has returned in which a Computed and then an Observer
\* were pinged
C14_Witness ==
  /\ pc = "idle"
  /\ lastOp.kind = "propagate"
  /\ raised = "none"
  /\ \E i, j \in DOMAIN invoked :
       i < j /\ Kind(invoked[i]) = "Computed" /\ Kind(invoked[j]) = "Observer"

C16_Dispatch ==
  \A n \in Invoked :
    (Kind(n) = "StreamObserver" /\ lastOp.node = Target(n))
      => /\ raised # "TypeError"
         /\ Cardinality({i \in DOMAIN cbcalls : cbcalls[i].owner = n}) = 1
         /\ lastTodo = {}

\* the explicit link and unlink calls of a client
LinkKinds == {"link_child", "link_child_hard", "link_parent", "unlink_child",
              "unlink_parent"}

\* the call recorded in op finds nothing to do in the current graph: the edge
\* to link is already a child of the emitter, or the edge to unlink is
\* known to neither end
Redundant(op) ==
  CASE op.kind \in {"link_child", "link_child_hard"} ->
         HasChild(Graph, op.em, op.node)
    [] op.kind \in {"unlink_child", "unlink_parent"} ->
         /\ op.node \notin children(Graph, op.em)
         /\ op.em \notin parentsOf(Graph, op.node)
    [] OTHER -> FALSE

\* C17: link/unlink idempotence: a link_child for an edge that exists and an
\* unlink_child or unlink_parent for an edge that does not exist change no
\* edge set and raise nothing, and in every link or unlink call chain at most
\* the call itself and the one reciprocal call it makes find something to do.
C17_Idempotent ==
  [][lastOp'.kind \in LinkKinds =>
       /\ Redundant(lastOp') => (UNCHANGED graphVars /\ raised' = "none")
       /\ lastOp'.calls <= 2]_vars

\* C20: edge sets are private: a link or unlink call on the emitter e and the
\* reactor r leaves the children of every other emitter and the parents of
\* every other reactor as they were.
C20_Private ==
  [][lastOp'.kind \in LinkKinds =>
       /\ \A e2 \in exists \ {lastOp'.em} :
            IsEmitter(e2) => children(Graph', e2) = children(Graph, e2)
       /\ \A r2 \in exists \ {lastOp'.node} :
            IsReactor(r2) => parentsOf(Graph', r2) = parentsOf(Graph, r2)]_vars

\* C18: innermost frame only: a signal read calls the callback of the
\* innermost frame exactly once and no other callback, so the reading signal
\* gains no child but the owner of that frame; a read while no frame is
\* active calls nothing and leaves every edge set as it was.
C18_Innermost ==
  [][lastOp'.kind = "read" =>
       IF t_current = NoFrame
       THEN cbcalls' = <<>> /\ UNCHANGED graphVars
       ELSE /\ cbcalls' = <<Call(t_current.owner, 0)>>
            /\ t_current.owner = evals[Len(evals)].owner
            /\ t_current.owner \in children(Graph', lastOp'.em)
            /\ children(Graph', lastOp'.em) \ children(Graph, lastOp'.em)
                 \subseteq {t_current.owner}]_vars

\* a is read by the function of a Computed that is evaluated inside the
\* action of an Observer, and became a child of a by that read
C18_Witness ==
  /\ lastOp.kind = "read" /\ lastOp.em = "a"
  /\ lastOp.calls > 0
  /\ Len(evals) >= 2
  /\ Kind(evals[1].owner) = "Observer"
  /\ Kind(evals[Len(evals)].owner) = "Computed"
  /\ cbcalls = <<Call(evals[Len(evals)].owner, 0)>>

\* C19: frames are restored: when an evaluation has finished, normally or by
\* raising, at any depth, the tracker's current frame and stack are what
\* they were just before it began; when no evaluation is in progress no
\* frame is active and the stack is empty.
C19_Restored ==
  /\ restored
  /\ evals = <<>> => (t_current = NoFrame /\ t_stack = <<>>)
  /\ evals # <<>> => /\ t_current = Callback(evals[Len(evals)].owner)
                     /\ Len(t_stack) = Len(evals) - 1

\* an evaluation nested inside two others has just ended by raising, and the
\* frame of the evaluation around it is current again
C19_Witness ==
  /\ lastOp.kind = "end" /\ lastOp.changed
  /\ Len(evals) = 2
  /\ restored
  /\ t_current = Callback(evals[2].owner)
  /\ t_stack = <<Callback(evals[1].owner)>>

\* C21: consistency at quiescence: once a propagate call has returned
\* normally, every Computed stores the level and the result that evaluating
\* its function against the current values and levels of the signals gives.
C21_Quiescent ==
  (/\ pc = "idle"
   /\ raised = "none"
   /\ lastOp.kind = "propagate")
  => \A n \in exists :
       Kind(n) = "Computed" => state[n] = Recalculate(Graph, n, current, state).st

\* the emitters that have the reactor r among their children
BoundTo(r) == {e \in exists : IsEmitter(e) /\ r \in children(Graph, e)}

\* C22: a flow stream has at most one parent and is a child of at most one
\* emitter in every state, and once its generator has finished or raised it
\* has no parent and is a child of no emitter.
C22_SingleParent ==
  \A n \in exists :
    Kind(n) = "Flow" =>
      /\ Cardinality(parentsOf(Graph, n)) <= 1
      /\ Cardinality(BoundTo(n)) <= 1
      /\ gen[n].done => (parentsOf(Graph, n) = {} /\ BoundTo(n) = {})

====
